---- MODULE Spec2Model ----
(***************************************************************************)
(* A model of dropblox_ai.py: the piece geometry (Block) and its checked   *)
(* moves, the board (Board.check, Board.do_commands, Board.place,          *)
(* Board.remove_rows), the placement enumerator (positions_by_dropping),   *)
(* the scorer (board_score) and the search.                                *)
(*                                                                         *)
(* Python values are modelled as follows.  A Point is a record [i, j].     *)
(* A Block is a record [center, offsets, translation, rotation].  A bitmap *)
(* is a sequence of rows, each a sequence of cells; Python's index k is    *)
(* position k + 1 of the sequence.  An operation that can raise returns a  *)
(* record whose field kind names the outcome.                              *)
(***************************************************************************)
EXTENDS Integers, Sequences, FiniteSets, TLC

\* Board.rows and Board.cols are 33 and 12 in the source; the model runs the
\* same code on a smaller grid.
rows == 3
cols == 3

\* The longest preview list and the longest command list that are tried.
MaxPreview == 1
MaxCmds == 2

\* place() lifts a piece that is not in a legal position by one row on every
\* call; direct calls stop once the piece is this far above its reset row.
MaxRise == 2

\* How far the free moves of a piece go: translation within -MaxShift..MaxShift
\* on both axes, rotation counter within -MaxTurn..MaxTurn.
MaxShift == 2
MaxTurn == 4

\* The longest command list given to Block.do_commands.
MaxMoves == 4

\* MAX_DEPTH is 6 in the source; the model searches less deep.
MAX_DEPTH == 2

\* board_score takes the size of the grid from the bitmap it is given: it is
\* run on every bitmap of 1..MaxGridRows rows and 1..MaxGridCols columns.
MaxGridRows == 3
MaxGridCols == 2

VARIABLES
  bitmap,   \* Board.bitmap of the board under test
  block,    \* Board.block (a Block object: its translation and rotation change in place)
  preview,  \* Board.preview
  ret,      \* what the last operation was called with and what it gave back
  hist,     \* the last two moves made on the piece, each with the piece before it
  pc,       \* where positions_by_dropping stands
  move,     \* positions_by_dropping: move
  moves,    \* positions_by_dropping: moves
  boards,   \* positions_by_dropping: boards
  stack,    \* search: the call that has reached its for loop, if any
  call,     \* search: the depth argument, and whether the call has yet to start
  status,   \* search: "idle", "running", "done" or the exception that ended it
  answer    \* search: the value the call returned

boardVars == <<bitmap, block, preview>>
enumVars == <<pc, move, moves, boards>>
searchVars == <<stack, call, status, answer>>
otherVars == <<bitmap, block, preview, ret, hist, pc, move, moves, boards>>
vars == <<bitmap, block, preview, ret, hist, pc, move, moves, boards,
          stack, call, status, answer>>

\* The variables of positions_by_dropping while it is not running.
EnumIdle == pc = "idle" /\ move = <<>> /\ moves = <<>> /\ boards = <<>>

NoCall == [active |-> FALSE, depth |-> 0]

\* The variables of search while it is not running.
SearchIdle ==
  /\ stack = <<>>
  /\ call = NoCall
  /\ status = "idle"
  /\ answer = <<>>

----------------------------------------------------------------------------
\* Point and Block

Point(i, j) == [i |-> i, j |-> j]

\* Block.__init__: translation Point(), rotation 0.
Block(center, offsets) ==
  [center |-> Point(center.i, center.j),
   offsets |-> offsets,
   translation |-> Point(0, 0),
   rotation |-> 0]

\* Block.squares: the generator's values, in order.
squares(b) ==
  IF b.rotation % 2 # 0
  THEN [k \in 1..Len(b.offsets) |->
          Point(b.center.i + b.translation.i + (2 - b.rotation) * b.offsets[k].j,
                b.center.j + b.translation.j - (2 - b.rotation) * b.offsets[k].i)]
  ELSE [k \in 1..Len(b.offsets) |->
          Point(b.center.i + b.translation.i + (1 - b.rotation) * b.offsets[k].i,
                b.center.j + b.translation.j + (1 - b.rotation) * b.offsets[k].j)]

left(b) == [b EXCEPT !.translation.j = @ - 1]

right(b) == [b EXCEPT !.translation.j = @ + 1]

up(b) == [b EXCEPT !.translation.i = @ - 1]

down(b) == [b EXCEPT !.translation.i = @ + 1]

rotate(b) == [b EXCEPT !.rotation = @ + 1]

\* A changed unrotate: three more quarter turns instead of one less.
unrotate_ThreeTurns(b) == [b EXCEPT !.rotation = @ + 3]

unrotate(b) == [b EXCEPT !.rotation = @ - 1]

reset_position(b) == [b EXCEPT !.translation = Point(0, 0), !.rotation = 0]

\* Block.do_command: getattr(self, command)() for the five names the
\* assertion admits.
do_command(b, command) ==
  CASE command = "left" -> left(b)
    [] command = "right" -> right(b)
    [] command = "up" -> up(b)
    [] command = "down" -> down(b)
    [] command = "rotate" -> rotate(b)

----------------------------------------------------------------------------
\* Python list indexing

\* seq[k] raises IndexError outside -len..len-1; a negative k counts from the end.
InRange(seq, k) == -Len(seq) <= k /\ k < Len(seq)

PyIndex(seq, k) == seq[(k % Len(seq)) + 1]

----------------------------------------------------------------------------
\* Board.check

\* The condition of the if inside Board.check for one square, evaluated left
\* to right as Python's `or` does: "bad", "free", or "IndexError" when the
\* bitmap is read outside its lists.
squareTest_NoLowerBound(bm, sq) ==
  IF sq.i >= rows \/ sq.j >= cols
  THEN "bad"
  ELSE IF ~InRange(bm, sq.i) THEN "IndexError"
  ELSE IF ~InRange(PyIndex(bm, sq.i), sq.j) THEN "IndexError"
  ELSE IF PyIndex(PyIndex(bm, sq.i), sq.j) # 0 THEN "bad"
  ELSE "free"

squareTest(bm, sq) ==
  IF sq.i < 0 \/ sq.i >= rows \/ sq.j < 0 \/ sq.j >= cols
  THEN "bad"
  ELSE IF ~InRange(bm, sq.i) THEN "IndexError"
  ELSE IF ~InRange(PyIndex(bm, sq.i), sq.j) THEN "IndexError"
  ELSE IF PyIndex(PyIndex(bm, sq.i), sq.j) # 0 THEN "bad"
  ELSE "free"

\* The for loop of Board.check from square k on: "True", "False" or "IndexError".
RECURSIVE checkFrom(_, _, _)
checkFrom(bm, sqs, k) ==
  IF k > Len(sqs) THEN "True"
  ELSE LET t == squareTest(bm, sqs[k]) IN
       IF t = "bad" THEN "False"
       ELSE IF t = "IndexError" THEN "IndexError"
       ELSE checkFrom(bm, sqs, k + 1)

checkOutcome(bm, b) == checkFrom(bm, squares(b), 1)

\* Board.check as the callers use it (a raise is not a True).
check(bm, b) == checkOutcome(bm, b) = "True"

----------------------------------------------------------------------------
\* Board.remove_rows and Board.place

\* all(row): every cell is truthy.
all(row) == \A c \in 1..Len(row) : row[c] # 0

\* [row for row in bitmap if not all(row)]
RECURSIVE keepRows(_)
keepRows(bm) ==
  IF bm = <<>> THEN <<>>
  ELSE IF all(Head(bm)) THEN keepRows(Tail(bm))
  ELSE <<Head(bm)>> \o keepRows(Tail(bm))

\* A changed remove_rows: the rows taken out are not put back on top.
remove_rows_NoPad(bm) == keepRows(bm)

\* A changed remove_rows: the empty rows are put under the rows kept.
remove_rows_PadBelow(bm) ==
  keepRows(bm) \o [r \in 1..(Len(bm) - Len(keepRows(bm))) |-> [c \in 1..Len(bm[1]) |-> 0]]

\* Board.remove_rows
remove_rows(bm) ==
  LET nrows == Len(bm)
      ncols == Len(bm[1])
      new_bitmap == keepRows(bm)
  IN [r \in 1..(nrows - Len(new_bitmap)) |-> [c \in 1..ncols |-> 0]] \o new_bitmap

\* A changed loop: the piece goes down one row at most.
fall_OneRow(bm, b) == IF check(bm, b) THEN down(b) ELSE b

\* The while loop of Board.place: down() as long as check holds.
RECURSIVE fall(_, _)
fall(bm, b) == IF check(bm, b) THEN fall(bm, down(b)) ELSE b

\* new_bitmap[square.i][square.j] = 1 for the squares from k on; ok is FALSE
\* when an index is outside the lists (IndexError).
RECURSIVE markFrom(_, _, _)
markFrom(bm, sqs, k) ==
  IF k > Len(sqs) THEN [ok |-> TRUE, bitmap |-> bm]
  ELSE IF ~InRange(bm, sqs[k].i) THEN [ok |-> FALSE, bitmap |-> bm]
  ELSE IF ~InRange(PyIndex(bm, sqs[k].i), sqs[k].j) THEN [ok |-> FALSE, bitmap |-> bm]
  ELSE LET r == (sqs[k].i % Len(bm)) + 1
           c == (sqs[k].j % Len(bm[r])) + 1
       IN markFrom([bm EXCEPT ![r][c] = 1], sqs, k + 1)

\* A Board object.
Board(bm, blk, pv) == [bitmap |-> bm, block |-> blk, preview |-> pv]

NoBlock == [center |-> Point(0, 0), offsets |-> <<>>,
            translation |-> Point(0, 0), rotation |-> 0]

NoBoard == Board(<<>>, NoBlock, <<>>)

\* What a Board method gives back: kind is "Board" (new is the Board
\* returned), "None", "InvalidMoveError" or "IndexError"; self is the Board
\* the method was called on as the call leaves it; locked is place's
\* new_bitmap before remove_rows.
Outcome(kind, new, self, locked) ==
  [kind |-> kind, new |-> new, self |-> self, locked |-> locked]

\* Board.place
place(brd) ==
  LET b == up(fall(brd.bitmap, brd.block))
      self == Board(brd.bitmap, b, brd.preview)
      marked == markFrom(brd.bitmap, squares(b), 1)
  IN IF ~marked.ok THEN Outcome("IndexError", NoBoard, self, <<>>)
     ELSE IF Len(brd.preview) = 0 THEN Outcome("None", NoBoard, self, marked.bitmap)
     ELSE Outcome("Board",
                  Board(remove_rows(marked.bitmap), Head(brd.preview), Tail(brd.preview)),
                  self, marked.bitmap)

----------------------------------------------------------------------------
\* Board.do_commands

\* The for loop of Board.do_commands from command k on; the list ends with
\* the 'drop' that do_commands appends.
RECURSIVE runCommands(_, _, _)
runCommands(brd, commands, k) ==
  IF commands[k] = "drop" THEN place(brd)
  ELSE LET b == do_command(brd.block, commands[k])
           moved == Board(brd.bitmap, b, brd.preview)
       IN IF ~check(brd.bitmap, b)
          THEN Outcome("InvalidMoveError", NoBoard, moved, <<>>)
          ELSE runCommands(moved, commands, k + 1)

\* A changed do_commands: no check of the reset position.
do_commands_NoSpawnCheck(brd, commands) ==
  runCommands(Board(brd.bitmap, reset_position(brd.block), brd.preview),
              Append(commands, "drop"), 1)

do_commands(brd, commands) ==
  LET b == reset_position(brd.block)
      start == Board(brd.bitmap, b, brd.preview)
  IN IF ~check(brd.bitmap, b)
     THEN Outcome("InvalidMoveError", NoBoard, start, <<>>)
     ELSE runCommands(start, Append(commands, "drop"), 1)

----------------------------------------------------------------------------
\* The inputs

\* MoveCommand
Commands == {"left", "right", "up", "down", "rotate", "drop"}

CommandLists == UNION {[1..n -> Commands] : n \in 0..MaxCmds}

\* Pieces as the game state gives them: a center and offsets.
ShapeList ==
  << [center |-> Point(0, 1), offsets |-> <<Point(0, 0)>>],
     [center |-> Point(0, 1), offsets |-> <<Point(0, 0), Point(0, 1)>>],
     [center |-> Point(0, 1), offsets |-> <<Point(0, 0), Point(1, 0), Point(0, 1)>>] >>

Piece(n) == Block(ShapeList[n].center, ShapeList[n].offsets)

Pieces == {Piece(n) : n \in 1..Len(ShapeList)}

\* Preview lists: n pieces taken in turn from the list of shapes, from any
\* place in it.
PreviewFrom(first, n) ==
  [k \in 1..n |-> Piece(((first + k - 2) % Len(ShapeList)) + 1)]

Previews == {PreviewFrom(first, n) : first \in 1..Len(ShapeList), n \in 0..MaxPreview}

\* The bitmaps a game starts the program with: k copies of a row that is not
\* full under empty rows.
RowPatterns == {p \in [1..cols -> {0, 1}] : ~all(p)}

Stack(p, k) == [r \in 1..rows |-> IF r > rows - k THEN p ELSE [c \in 1..cols |-> 0]]

InitBitmaps == {Stack(p, k) : p \in RowPatterns, k \in 0..rows}

----------------------------------------------------------------------------
\* The board under test and the calls made on it

board == Board(bitmap, block, preview)

NoRet == [op |-> "none", commands |-> <<>>, pre |-> NoBoard,
          out |-> Outcome("none", NoBoard, NoBoard, <<>>), val |-> "none"]

Init ==
  /\ bitmap \in InitBitmaps
  /\ block \in Pieces
  /\ preview \in Previews
  /\ ret = NoRet
  /\ hist = <<>>
  /\ EnumIdle
  /\ SearchIdle

\* board.check(board.block)
Check ==
  /\ ret' = [NoRet EXCEPT !.op = "check", !.pre = board,
                          !.val = checkOutcome(bitmap, block)]
  /\ UNCHANGED <<bitmap, block, preview, hist, enumVars, searchVars>>

\* board.do_commands(commands), on a Board as constructed
DoCommands ==
  /\ ret.op = "none"
  /\ \E commands \in CommandLists :
       \E out \in {do_commands(board, commands)} :
         /\ ret' = [NoRet EXCEPT !.op = "do_commands", !.commands = commands,
                                 !.pre = board, !.out = out]
         /\ bitmap' = out.self.bitmap
         /\ block' = out.self.block
         /\ preview' = out.self.preview
         /\ UNCHANGED <<hist, enumVars, searchVars>>

\* board.place()
Place ==
  /\ block.translation.i > -MaxRise
  /\ \E out \in {place(board)} :
       /\ ret' = [NoRet EXCEPT !.op = "place", !.pre = board, !.out = out]
       /\ bitmap' = out.self.bitmap
       /\ block' = out.self.block
       /\ preview' = out.self.preview
       /\ UNCHANGED <<hist, enumVars, searchVars>>

Next == Check \/ DoCommands \/ Place

Spec == Init /\ [][Next]_vars

----------------------------------------------------------------------------
\* The moves of a piece on their own

EmptyBitmap == [r \in 1..rows |-> [c \in 1..cols |-> 0]]

InitPiece ==
  /\ bitmap = EmptyBitmap
  /\ block \in Pieces
  /\ preview = <<>>
  /\ ret = NoRet
  /\ hist = <<>>
  /\ EnumIdle
  /\ SearchIdle

\* The piece is where the single moves are tried.
InBox(b) ==
  /\ b.translation.i \in (-MaxShift)..MaxShift
  /\ b.translation.j \in (-MaxShift)..MaxShift
  /\ b.rotation \in (-MaxTurn)..MaxTurn

\* The piece is as Block.__init__ made it and no call has been made on it.
Fresh == ret.op = "none" /\ hist = <<>>

\* hist after one more move.
Remember(op) ==
  LET e == [op |-> op, pre |-> block]
  IN IF Len(hist) < 2 THEN Append(hist, e) ELSE <<hist[2], e>>

Left ==
  /\ InBox(block)
  /\ block.translation.j > -MaxShift
  /\ block' = left(block)
  /\ hist' = Remember("left")
  /\ ret' = NoRet
  /\ UNCHANGED <<bitmap, preview, enumVars, searchVars>>

Right ==
  /\ InBox(block)
  /\ block.translation.j < MaxShift
  /\ block' = right(block)
  /\ hist' = Remember("right")
  /\ ret' = NoRet
  /\ UNCHANGED <<bitmap, preview, enumVars, searchVars>>

Up ==
  /\ InBox(block)
  /\ block.translation.i > -MaxShift
  /\ block' = up(block)
  /\ hist' = Remember("up")
  /\ ret' = NoRet
  /\ UNCHANGED <<bitmap, preview, enumVars, searchVars>>

Down ==
  /\ InBox(block)
  /\ block.translation.i < MaxShift
  /\ block' = down(block)
  /\ hist' = Remember("down")
  /\ ret' = NoRet
  /\ UNCHANGED <<bitmap, preview, enumVars, searchVars>>

Rotate ==
  /\ InBox(block)
  /\ block.rotation < MaxTurn
  /\ block' = rotate(block)
  /\ hist' = Remember("rotate")
  /\ ret' = NoRet
  /\ UNCHANGED <<bitmap, preview, enumVars, searchVars>>

Unrotate ==
  /\ InBox(block)
  /\ block.rotation > -MaxTurn
  /\ block' = unrotate(block)
  /\ hist' = Remember("unrotate")
  /\ ret' = NoRet
  /\ UNCHANGED <<bitmap, preview, enumVars, searchVars>>

\* block.reset_position()
ResetPosition ==
  /\ block' = reset_position(block)
  /\ hist' = Remember("reset_position")
  /\ ret' = NoRet
  /\ UNCHANGED <<bitmap, preview, enumVars, searchVars>>

\* The for loop of Block.do_commands from command k on; the assertion of
\* do_command stops it at a name that is not a move.
RECURSIVE Block_do_commands_from(_, _, _)
Block_do_commands_from(b, commands, k) ==
  IF k > Len(commands) THEN [kind |-> "None", block |-> b]
  ELSE IF commands[k] \notin {"left", "right", "up", "down", "rotate"}
       THEN [kind |-> "AssertionError", block |-> b]
       ELSE Block_do_commands_from(do_command(b, commands[k]), commands, k + 1)

\* Block.do_commands
Block_do_commands(b, commands) == Block_do_commands_from(b, commands, 1)

\* The command lists given to Block.do_commands.
MoveLists == UNION {[1..n -> Commands] : n \in 0..MaxMoves}

\* block.do_commands(commands), on a Block as constructed
BlockDoCommands ==
  /\ Fresh
  /\ \E commands \in MoveLists :
       \E r \in {Block_do_commands(block, commands)} :
         /\ ret' = [NoRet EXCEPT !.op = "Block.do_commands", !.commands = commands,
                                 !.pre = board, !.val = r.kind]
         /\ block' = r.block
  /\ UNCHANGED <<bitmap, preview, hist, enumVars, searchVars>>

\* while go - 6 > 0: moves.append('left'); block.left(); go -= 1
RECURSIVE goLeft(_, _, _)
goLeft(b, mv, go) ==
  IF go - 6 > 0 THEN goLeft(left(b), Append(mv, "left"), go - 1)
  ELSE [block |-> b, moves |-> mv, go |-> go]

\* while go - 6 < 0: moves.append('right'); block.right(); go += 1
RECURSIVE goRight(_, _, _)
goRight(b, mv, go) ==
  IF go - 6 < 0 THEN goRight(right(b), Append(mv, "right"), go + 1)
  ELSE [block |-> b, moves |-> mv, go |-> go]

\* random_moves(board, block) when choice(range(12)) gives go: the list
\* starts with 'rotate', and the piece is moved sideways but not turned.
random_moves(b, go) ==
  LET l == goLeft(b, <<"rotate">>, go)
  IN goRight(l.block, l.moves, l.go)

\* range(12)
GoValues == 0..11

\* random_moves(board, block), on a Block as constructed
RandomMoves ==
  /\ Fresh
  /\ \E go \in GoValues :
       \E r \in {random_moves(block, go)} :
         /\ ret' = [NoRet EXCEPT !.op = "random_moves", !.pre = board, !.val = r.moves]
         /\ block' = r.block
  /\ UNCHANGED <<bitmap, preview, hist, enumVars, searchVars>>

NextPiece ==
  \/ Left \/ Right \/ Up \/ Down \/ Rotate \/ Unrotate
  \/ ResetPosition \/ BlockDoCommands \/ RandomMoves

SpecPiece == InitPiece /\ [][NextPiece]_vars

----------------------------------------------------------------------------
\* The checked moves of a piece: block.checked_left(board) and the others,
\* with block the board's own piece.  Each gives the flag returned and the
\* piece as the call leaves it.

checked_left(bm, b) ==
  LET m == left(b)
  IN IF check(bm, m) THEN [val |-> "True", block |-> m]
     ELSE [val |-> "False", block |-> right(m)]

checked_right(bm, b) ==
  LET m == right(b)
  IN IF check(bm, m) THEN [val |-> "True", block |-> m]
     ELSE [val |-> "False", block |-> left(m)]

checked_down(bm, b) ==
  LET m == down(b)
  IN IF check(bm, m) THEN [val |-> "True", block |-> m]
     ELSE [val |-> "False", block |-> up(m)]

checked_up(bm, b) ==
  LET m == up(b)
  IN IF check(bm, m) THEN [val |-> "True", block |-> m]
     ELSE [val |-> "False", block |-> down(m)]

\* A changed checked_rotate: the turn is not taken back.
checked_rotate_NoRollback(bm, b) ==
  LET m == rotate(b)
  IN [val |-> IF check(bm, m) THEN "True" ELSE "False", block |-> m]

checked_rotate(bm, b) ==
  LET m == rotate(b)
  IN IF check(bm, m) THEN [val |-> "True", block |-> m]
     ELSE [val |-> "False", block |-> unrotate(m)]

InitChecked ==
  /\ bitmap \in InitBitmaps
  /\ block \in Pieces
  /\ preview = <<>>
  /\ ret = NoRet
  /\ hist = <<>>
  /\ EnumIdle
  /\ SearchIdle

\* The call has returned r: the flag goes to the caller, the piece is as the
\* call left it.
CheckedReturn(op, r) ==
  /\ ret' = [NoRet EXCEPT !.op = op, !.pre = board, !.val = r.val]
  /\ block' = r.block
  /\ UNCHANGED <<bitmap, preview, hist, enumVars, searchVars>>

CheckedLeft == \E r \in {checked_left(bitmap, block)} : CheckedReturn("checked_left", r)

CheckedRight == \E r \in {checked_right(bitmap, block)} : CheckedReturn("checked_right", r)

CheckedDown == \E r \in {checked_down(bitmap, block)} : CheckedReturn("checked_down", r)

CheckedUp == \E r \in {checked_up(bitmap, block)} : CheckedReturn("checked_up", r)

CheckedRotate ==
  /\ block.rotation < MaxTurn
  /\ \E r \in {checked_rotate(bitmap, block)} : CheckedReturn("checked_rotate", r)

NextChecked == CheckedLeft \/ CheckedRight \/ CheckedDown \/ CheckedUp \/ CheckedRotate

SpecChecked == InitChecked /\ [][NextChecked]_vars

----------------------------------------------------------------------------
\* positions_by_dropping(board, block), with block the board's own piece as
\* search passes it; one action per loop iteration

InitEnum ==
  /\ bitmap \in InitBitmaps
  /\ block \in Pieces
  /\ preview \in Previews
  /\ ret = NoRet
  /\ hist = <<>>
  /\ EnumIdle
  /\ SearchIdle

\* The call: move = [].
EnumCall ==
  /\ pc = "idle"
  /\ ret.op = "none"
  /\ ret' = [NoRet EXCEPT !.op = "positions_by_dropping", !.pre = board]
  /\ pc' = "slide"
  /\ move' = <<>>
  /\ UNCHANGED <<bitmap, block, preview, hist, moves, boards, searchVars>>

\* while board.check(block): block.left(); move.append('left')
EnumSlide ==
  /\ pc = "slide"
  /\ IF check(bitmap, block)
     THEN /\ block' = left(block)
          /\ move' = Append(move, "left")
          /\ pc' = pc
     ELSE /\ pc' = "slid"
          /\ UNCHANGED <<block, move>>
  /\ UNCHANGED <<bitmap, preview, ret, hist, moves, boards, searchVars>>

\* if len(move) > 0: block.right(); move.pop()
\* then moves = []
EnumSlideBack ==
  /\ pc = "slid"
  /\ IF Len(move) > 0
     THEN /\ block' = right(block)
          /\ move' = SubSeq(move, 1, Len(move) - 1)
     ELSE UNCHANGED <<block, move>>
  /\ moves' = <<>>
  /\ pc' = "sweep"
  /\ UNCHANGED <<bitmap, preview, ret, hist, boards, searchVars>>

\* for i in range(4): moves.append(move[:]); block.rotate(); move.append('rotate')
\* from the i-th round on: the piece, move and moves after the loop.
RECURSIVE fourTurns(_, _, _, _)
fourTurns(b, mv, mvs, i) ==
  IF i = 4 THEN [block |-> b, move |-> mv, moves |-> mvs]
  ELSE fourTurns(rotate(b), Append(mv, "rotate"), Append(mvs, mv), i + 1)

\* while board.check(block): the four turns, block.right(), move.append('right')
EnumSweep ==
  /\ pc = "sweep"
  /\ IF check(bitmap, block)
     THEN \E t \in {fourTurns(block, move, moves, 0)} :
            /\ block' = right(t.block)
            /\ move' = Append(t.move, "right")
            /\ moves' = t.moves
            /\ pc' = pc
     ELSE /\ pc' = "swept"
          /\ UNCHANGED <<block, move, moves>>
  /\ UNCHANGED <<bitmap, preview, ret, hist, boards, searchVars>>

\* if len(move) > 0: block.left(); move.pop()
\* then boards = []
EnumSweepBack ==
  /\ pc = "swept"
  /\ IF Len(move) > 0
     THEN /\ block' = left(block)
          /\ move' = SubSeq(move, 1, Len(move) - 1)
     ELSE UNCHANGED <<block, move>>
  /\ boards' = <<>>
  /\ pc' = "drop"
  /\ UNCHANGED <<bitmap, preview, ret, hist, moves, searchVars>>

\* for thing in moves: b = block_copy().do_commands(thing) ...
\* block_copy() is Block(block.center, block.offsets), and Block.__init__
\* subscripts its center argument (center['i']): block.center is a Point,
\* which has no __getitem__, so the first round of the loop raises TypeError.
\* With no recorded move the loop is skipped and zip(boards, moves) is
\* returned.
EnumDrop ==
  /\ pc = "drop"
  /\ pc' = IF Len(moves) > 0 THEN "TypeError" ELSE "returned"
  /\ UNCHANGED <<bitmap, block, preview, ret, hist, move, moves, boards, searchVars>>

NextEnum ==
  EnumCall \/ EnumSlide \/ EnumSlideBack \/ EnumSweep \/ EnumSweepBack \/ EnumDrop

SpecEnum == InitEnum /\ [][NextEnum]_vars

\* The same call in a run that goes on: the interpreter takes the next step
\* of the function as long as there is one.
LiveEnum == InitEnum /\ [][NextEnum]_vars /\ WF_vars(NextEnum)

\* The call has ended, by return or by an exception.
EnumEnded == pc \in {"returned", "TypeError"}

\* zip(boards, moves), the value returned.
EnumResult == [k \in 1..Len(boards) |-> <<boards[k], moves[k]>>]

----------------------------------------------------------------------------
\* board_score(board), in its parts: the flood fill over the empty cells
\* (down to spaces.append(size)), the sort of the sizes, and the heights of
\* the columns.  `sorted(spaces.sort)` is given a bound method, not a list,
\* and raises TypeError whatever the list holds, so a call never gets past
\* it; the parts are run one by one, each on the bitmap.

MOVES == << <<-1, 0>>, <<1, 0>>, <<0, 1>>, <<0, -1>> >>

\* visited = [[False] * columns] * rows: rows references to ONE list of
\* columns flags, so visited[x][y] is flag y of that list for every x.
NoneVisited(bm) == [c \in 1..Len(bm[1]) |-> FALSE]

\* for m in MOVES, from the m-th move on, for the cell s taken from the queue.
RECURSIVE expand(_, _, _, _, _)
expand(bm, visited, queue, s, m) ==
  IF m > Len(MOVES) THEN [visited |-> visited, queue |-> queue]
  ELSE LET new_r == s[1] + MOVES[m][1]
           new_c == s[2] + MOVES[m][2]
       IN IF /\ 0 <= new_r /\ new_r < Len(bm)
             /\ 0 <= new_c /\ new_c < Len(bm[1])
             /\ ~visited[new_c + 1]
             /\ bm[new_r + 1][new_c + 1] = 0
          THEN expand(bm, [visited EXCEPT ![new_c + 1] = TRUE],
                      Append(queue, <<new_r, new_c>>), s, m + 1)
          ELSE expand(bm, visited, queue, s, m + 1)

\* while not len(queue) == 0: cells are the cells taken from the queue so
\* far, one for each size += 1.
RECURSIVE drain(_, _, _, _)
drain(bm, visited, queue, cells) ==
  IF queue = <<>> THEN [visited |-> visited, cells |-> cells]
  ELSE LET e == expand(bm, visited, Tail(queue), Head(queue), 1)
       IN drain(bm, e.visited, e.queue, Append(cells, Head(queue)))

\* for r in range(rows): for c in range(columns): from the n-th round on
\* (r = n \div columns, c = n % columns).  The test reads visited[c][r] and
\* board.bitmap[c][r]: c indexes a list of rows entries and r a list of
\* columns entries.
RECURSIVE scan(_, _, _, _)
scan(bm, visited, n, found) ==
  LET nrows == Len(bm)
      columns == Len(bm[1])
      r == n \div columns
      c == n % columns
  IN IF n = nrows * columns THEN [kind |-> "ok", components |-> found]
     ELSE IF c >= nrows \/ r >= columns THEN [kind |-> "IndexError", components |-> found]
     ELSE IF ~visited[r + 1] /\ bm[c + 1][r + 1] = 0
          THEN LET f == drain(bm, visited, << <<r, c>> >>, <<>>)
               IN scan(bm, f.visited, n + 1, Append(found, f.cells))
          ELSE scan(bm, visited, n + 1, found)

\* The flood fill: the cells counted for each entry of spaces, in order.
flood_fill(bm) == scan(bm, NoneVisited(bm), 0, <<>>)

\* spaces as the flood fill leaves it.
spaces(bm) == [k \in 1..Len(flood_fill(bm).components) |-> Len(flood_fill(bm).components[k])]

\* r = 0; while board.bitmap[r][c] == 0 and r < rows: r += 1
\* The bitmap is read before r is compared to rows: -1 stands for the
\* IndexError of board.bitmap[rows].
RECURSIVE column_scan(_, _, _)
column_scan(bm, c, r) ==
  IF r >= Len(bm) THEN -1
  ELSE IF bm[r + 1][c + 1] = 0 /\ r < Len(bm) THEN column_scan(bm, c, r + 1)
  ELSE r

\* for c in range(columns): ... heights.append(r)
column_heights(bm) ==
  LET hs == [c \in 1..Len(bm[1]) |-> column_scan(bm, c - 1, 0)]
  IN IF \E c \in 1..Len(hs) : hs[c] = -1
     THEN [kind |-> "IndexError", heights |-> <<>>]
     ELSE [kind |-> "ok", heights |-> hs]

\* How a call of board_score ends.
board_score(bm) ==
  IF flood_fill(bm).kind = "IndexError" THEN "IndexError" ELSE "TypeError"

\* The bitmaps board_score is run on.
ScoreGrids ==
  UNION {[1..nr -> [1..nc -> {0, 1}]] : nr \in 1..MaxGridRows, nc \in 1..MaxGridCols}

InitScore ==
  /\ bitmap \in ScoreGrids
  /\ block = Piece(1)
  /\ preview = <<>>
  /\ ret = NoRet
  /\ hist = <<>>
  /\ EnumIdle
  /\ SearchIdle

ScoreSpaces ==
  /\ ret' = [NoRet EXCEPT !.op = "flood_fill", !.pre = board, !.val = flood_fill(bitmap)]
  /\ UNCHANGED <<bitmap, block, preview, hist, enumVars, searchVars>>

ScoreHeights ==
  /\ ret' = [NoRet EXCEPT !.op = "column_heights", !.pre = board,
                          !.val = column_heights(bitmap)]
  /\ UNCHANGED <<bitmap, block, preview, hist, enumVars, searchVars>>

BoardScore ==
  /\ ret' = [NoRet EXCEPT !.op = "board_score", !.pre = board, !.val = board_score(bitmap)]
  /\ UNCHANGED <<bitmap, block, preview, hist, enumVars, searchVars>>

NextScore == ScoreSpaces \/ ScoreHeights \/ BoardScore

SpecScore == InitScore /\ [][NextScore]_vars

----------------------------------------------------------------------------
\* search(board, block, preview, depth), called with the variables bitmap,
\* block and preview and any depth.

\* The first while loop of positions_by_dropping.
RECURSIVE slideLeft(_, _, _)
slideLeft(bm, b, mv) ==
  IF check(bm, b) THEN slideLeft(bm, left(b), Append(mv, "left"))
  ELSE [block |-> b, move |-> mv]

\* The second while loop of positions_by_dropping.
RECURSIVE sweepRight(_, _, _, _)
sweepRight(bm, b, mv, mvs) ==
  IF check(bm, b)
  THEN LET t == fourTurns(b, mv, mvs, 0)
       IN sweepRight(bm, right(t.block), Append(t.move, "right"), t.moves)
  ELSE [block |-> b, move |-> mv, moves |-> mvs]

\* positions_by_dropping down to `boards = []`: the piece it was given as it
\* leaves it, and moves.
swept(bm, b) ==
  LET s == slideLeft(bm, b, <<>>)
      b1 == IF Len(s.move) > 0 THEN right(s.block) ELSE s.block
      m1 == IF Len(s.move) > 0 THEN SubSeq(s.move, 1, Len(s.move) - 1) ELSE s.move
      w == sweepRight(bm, b1, m1, <<>>)
  IN [block |-> IF Len(w.move) > 0 THEN left(w.block) ELSE w.block,
      moves |-> w.moves]

\* positions_by_dropping(board, block) as search calls it: with a recorded
\* move the first round of `for thing in moves` raises TypeError in
\* block_copy(); with none it returns zip([], []).
positions_by_dropping(bm, b) ==
  LET s == swept(bm, b)
  IN IF Len(s.moves) > 0
     THEN [kind |-> "TypeError", block |-> s.block, possible_moves |-> <<>>]
     ELSE [kind |-> "returned", block |-> s.block, possible_moves |-> <<>>]

\* The depths search is called with.
Depths == 0..(MAX_DEPTH + 1)

InitSearch ==
  /\ bitmap \in InitBitmaps
  /\ block \in Pieces
  /\ preview \in Previews
  /\ ret = NoRet
  /\ hist = <<>>
  /\ EnumIdle
  /\ stack = <<>>
  /\ \E depth \in Depths : call = [active |-> TRUE, depth |-> depth]
  /\ status = "running"
  /\ answer = <<>>

\* if depth > MAX_DEPTH: return board_score(board)
\* board_score raises on every board, and the exception ends search.
SearchTerminal ==
  /\ call.active
  /\ call.depth > MAX_DEPTH
  /\ status' = board_score(bitmap)
  /\ call' = [call EXCEPT !.active = FALSE]
  /\ UNCHANGED <<stack, answer>>
  /\ UNCHANGED otherVars

\* possible_moves = positions_by_dropping(board, block, depth == 0)
\* max_score = 0; best_moves = []
\* An exception of positions_by_dropping ends search; the piece stays as the
\* enumerator left it.
SearchEnumerate ==
  /\ call.active
  /\ call.depth <= MAX_DEPTH
  /\ \E e \in {positions_by_dropping(bitmap, block)} :
       /\ block' = e.block
       /\ IF e.kind = "returned"
          THEN /\ stack' = <<[depth |-> call.depth, possible_moves |-> e.possible_moves,
                              max_score |-> 0, best_moves |-> <<>>]>>
               /\ UNCHANGED status
          ELSE /\ status' = e.kind
               /\ UNCHANGED stack
  /\ call' = [call EXCEPT !.active = FALSE]
  /\ UNCHANGED answer
  /\ UNCHANGED <<bitmap, preview, ret, hist, enumVars>>

\* for (new_board, move_list) in possible_moves: ...
\* if depth == 0: return best_moves
\* return max_score
\* possible_moves is empty whenever the loop is reached, so its body (the
\* recursive call and the comparison with max_score) is not run.
SearchFinish ==
  /\ status = "running"
  /\ ~call.active
  /\ LET f == stack[Len(stack)] IN
     /\ Len(f.possible_moves) = 0
     /\ status' = "done"
     /\ answer' = IF f.depth = 0 THEN f.best_moves ELSE f.max_score
  /\ UNCHANGED <<stack, call>>
  /\ UNCHANGED otherVars

NextSearch == SearchTerminal \/ SearchEnumerate \/ SearchFinish

SpecSearch == InitSearch /\ [][NextSearch]_vars

\* The call of search has ended, by return or by an exception.
SearchEnded == status \in {"done", "TypeError", "IndexError"}

----------------------------------------------------------------------------
\* Legality and positions, stated without the code

\* Every square is on the grid and on an empty cell.
Legal(bm, b) ==
  \A k \in 1..Len(b.offsets) :
    LET sq == squares(b)[k] IN
    /\ sq.i \in 0..(rows - 1)
    /\ sq.j \in 0..(cols - 1)
    /\ bm[sq.i + 1][sq.j + 1] = 0

\* How many of the first n commands are c.
Count(commands, n, c) == Cardinality({k \in 1..n : commands[k] = c})

\* The piece b after the first n commands, from its reset position.
Moved(b, commands, n) ==
  [b EXCEPT !.translation = Point(Count(commands, n, "down") - Count(commands, n, "up"),
                                  Count(commands, n, "right") - Count(commands, n, "left")),
            !.rotation = Count(commands, n, "rotate")]

\* The commands before the first 'drop'.
BeforeDrop(commands) ==
  LET drops == {k \in 1..Len(commands) : commands[k] = "drop"}
      first == IF drops = {} THEN Len(commands) + 1
               ELSE CHOOSE k \in drops : \A m \in drops : k <= m
  IN SubSeq(commands, 1, first - 1)

----------------------------------------------------------------------------
\* The claims

\* C3: for every piece and rotation counter r, squares() at r and at r + 4
\* are the same sequence: four more rotate() calls leave the squares as they were.
C3_FourTurnsSameSquares ==
  squares(rotate(rotate(rotate(rotate(block))))) = squares(block)

\* C4: after a lock transition (place, called directly or by do_commands) the
\* new grid has rows rows of cols cells, every cell is 0 or 1, and no row is
\* full.
C4_LockedGridShape ==
  (ret.op \in {"place", "do_commands"} /\ ret.out.kind = "Board") =>
    LET g == ret.out.new.bitmap IN
    /\ Len(g) = rows
    /\ \A r \in 1..Len(g) :
         /\ Len(g[r]) = cols
         /\ \A c \in 1..Len(g[r]) : g[r][c] \in {0, 1}
         /\ \E c \in 1..Len(g[r]) : g[r][c] = 0

\* A lock that filled a row, which the new grid no longer has.
C4_Witness ==
  /\ ret.op \in {"place", "do_commands"}
  /\ ret.out.kind = "Board"
  /\ \E r \in 1..Len(ret.out.locked) : all(ret.out.locked[r])

\* C5: check gives True exactly when every square is on the grid and on an
\* empty cell, gives a boolean for every position, and changes neither the
\* board nor the piece.
C5_CheckIsLegality ==
  ret.op = "check" =>
    /\ ret.val \in {"True", "False"}
    /\ (ret.val = "True") <=> Legal(ret.pre.bitmap, ret.pre.block)
    /\ board = ret.pre

\* check called on a piece with a square left of or above the grid.
C5_Witness ==
  /\ ret.op = "check"
  /\ ret.val = "False"
  /\ \E k \in 1..Len(block.offsets) : squares(block)[k].i < 0 \/ squares(block)[k].j < 0

\* C6: do_commands raises InvalidMoveError exactly when the piece is illegal
\* at its reset position or right after a command before the first 'drop';
\* otherwise it returns what the lock transition gives from the position
\* those commands lead to, whatever follows the first 'drop'.
C6_DoCommandsOutcome ==
  ret.op = "do_commands" =>
    LET cmds == BeforeDrop(ret.commands)
        at(n) == Moved(ret.pre.block, cmds, n)
        illegal == \E n \in 0..Len(cmds) : ~Legal(ret.pre.bitmap, at(n))
        lock == place(Board(ret.pre.bitmap, at(Len(cmds)), ret.pre.preview))
    IN /\ (ret.out.kind = "InvalidMoveError") <=> illegal
       /\ ~illegal => (ret.out.kind = lock.kind /\ ret.out.new = lock.new)

\* do_commands rejected a list whose second command made the piece illegal.
C6_Witness ==
  /\ ret.op = "do_commands"
  /\ ret.out.kind = "InvalidMoveError"
  /\ Len(ret.commands) = 2
  /\ Legal(ret.pre.bitmap, Moved(ret.pre.block, ret.commands, 1))
  /\ ret.commands[1] # "drop"

\* Some rotation 0..3 in some column puts the piece b on the grid legally.
HasPlacement(bm, b) ==
  \E r \in 0..3 : \E t \in (-cols)..cols :
    Legal(bm, [b EXCEPT !.translation = Point(0, t), !.rotation = r])

\* C1: search called at depth 0 on a board that has a placement for the
\* piece returns the move list of a placement: a list that takes the piece
\* from its reset position to a legal position.
C1_BestPlacementReturned ==
  (SearchEnded /\ call.depth = 0 /\ HasPlacement(bitmap, reset_position(block))) =>
    /\ status = "done"
    /\ Legal(bitmap, Moved(reset_position(block), answer, Len(answer)))

\* The boards that trying every rotation 0..3 in every column gives: the
\* piece put there if that is legal, dropped and locked.
BruteForce(bm, b) ==
  { remove_rows(place(Board(bm, [b EXCEPT !.translation = Point(0, t), !.rotation = r],
                            <<>>)).locked) :
      <<r, t>> \in { x \in (0..3) \X ((-cols)..cols) :
                       Legal(bm, [b EXCEPT !.translation = Point(0, x[2]),
                                           !.rotation = x[1]]) } }

\* C2: the set of final boards the enumerator produces is the set that
\* trying every rotation in every column gives.
C2_EnumeratorComplete ==
  EnumEnded =>
    {EnumResult[k][1].bitmap : k \in 1..Len(EnumResult)}
      = BruteForce(ret.pre.bitmap, reset_position(ret.pre.block))

\* C7: when the enumerator's call has ended, the caller's board (grid, piece,
\* preview) and the piece passed in are as they were before the call.
C7_CallerStateKept ==
  EnumEnded => board = ret.pre

\* C10: an apply/undo pair (rotate/unrotate, left/right, up/down, in either
\* order) gives back the translation, the rotation counter and the squares
\* the piece had before the pair.
InversePairs ==
  { <<"rotate", "unrotate">>, <<"unrotate", "rotate">>,
    <<"left", "right">>, <<"right", "left">>,
    <<"up", "down">>, <<"down", "up">> }

C10_PairsAreInverse ==
  (Len(hist) = 2 /\ <<hist[1].op, hist[2].op>> \in InversePairs) =>
    /\ block.translation = hist[1].pre.translation
    /\ block.rotation = hist[1].pre.rotation
    /\ squares(block) = squares(hist[1].pre)

\* unrotate then rotate from rotation 0: the counter is -1 in between.
C10_Witness ==
  /\ Len(hist) = 2
  /\ hist[1].op = "unrotate"
  /\ hist[1].pre.rotation = 0
  /\ hist[2].op = "rotate"

\* The piece one move of a checked call away from b.
OneMove(op, b) ==
  LET di == CASE op = "checked_down" -> 1 [] op = "checked_up" -> -1 [] OTHER -> 0
      dj == CASE op = "checked_right" -> 1 [] op = "checked_left" -> -1 [] OTHER -> 0
      dr == IF op = "checked_rotate" THEN 1 ELSE 0
  IN [b EXCEPT !.translation = Point(b.translation.i + di, b.translation.j + dj),
               !.rotation = b.rotation + dr]

CheckedOps ==
  {"checked_left", "checked_right", "checked_up", "checked_down", "checked_rotate"}

\* C11: a checked move returns True exactly when the piece one move further
\* is legal on the board; on False the piece has the translation and the
\* rotation it had before the call, on True it is the piece one move further;
\* the board's grid and preview are as before the call.
C11_CheckedMoves ==
  ret.op \in CheckedOps =>
    LET m == OneMove(ret.op, ret.pre.block) IN
    /\ ret.val \in {"True", "False"}
    /\ (ret.val = "True") <=> Legal(ret.pre.bitmap, m)
    /\ ret.val = "False" =>
         /\ block.translation = ret.pre.block.translation
         /\ block.rotation = ret.pre.block.rotation
    /\ ret.val = "True" => block = m
    /\ bitmap = ret.pre.bitmap
    /\ preview = ret.pre.preview

\* checked_rotate refused a turn from a legal position the piece had moved to.
C11_Witness ==
  /\ ret.op = "checked_rotate"
  /\ ret.val = "False"
  /\ Legal(bitmap, block)
  /\ block.translation # Point(0, 0)

\* C12: when do_commands has raised InvalidMoveError the Board is as before
\* the call: same grid, same preview, and its piece at the translation and
\* rotation it had.
C12_RejectionKeepsBoard ==
  (ret.op = "do_commands" /\ ret.out.kind = "InvalidMoveError") =>
    /\ bitmap = ret.pre.bitmap
    /\ preview = ret.pre.preview
    /\ block.translation = ret.pre.block.translation
    /\ block.rotation = ret.pre.block.rotation

\* C13: place on a Board whose preview is empty does not return, neither a
\* Board nor None; with a preview that is not empty the Board returned has the
\* head of the preview as its piece and the tail as its preview.
C13_EmptyPreviewFatal ==
  ret.op = "place" =>
    /\ Len(ret.pre.preview) = 0 => ret.out.kind \notin {"Board", "None"}
    /\ (Len(ret.pre.preview) > 0 /\ ret.out.kind = "Board") =>
         /\ ret.out.new.block = Head(ret.pre.preview)
         /\ ret.out.new.preview = Tail(ret.pre.preview)

\* The position the lock transition of the last call started from: the
\* piece as place() found it, or as the commands before the first 'drop' left it.
LockStart ==
  IF ret.op = "place" THEN ret.pre.block
  ELSE LET cmds == BeforeDrop(ret.commands) IN Moved(ret.pre.block, cmds, Len(cmds))

\* A lock transition has run from a legal position.
Locked ==
  /\ ret.op \in {"place", "do_commands"}
  /\ ret.out.kind # "InvalidMoveError"
  /\ Legal(ret.pre.bitmap, LockStart)

\* The piece p with its translation's row set to t.
AtRow(p, t) == [p EXCEPT !.translation = Point(t, p.translation.j)]

\* C16: a lock transition from a legal position leaves the piece in the same
\* column and rotation at the lowest row it reaches going down through legal
\* positions (legal there, illegal one row lower); new_bitmap before
\* remove_rows is the source grid with the piece's squares set to 1 and
\* nothing else changed; the source Board's grid is as before.
C16_LockAtLowest ==
  Locked =>
    LET p == LockStart
        b == block
        g == ret.pre.bitmap
        at == {<<squares(b)[k].i, squares(b)[k].j>> : k \in 1..Len(b.offsets)}
    IN /\ b = AtRow(p, b.translation.i)
       /\ b.translation.i >= p.translation.i
       /\ \A t \in p.translation.i..b.translation.i : Legal(g, AtRow(p, t))
       /\ ~Legal(g, AtRow(p, b.translation.i + 1))
       /\ ret.out.kind \in {"Board", "None"}
       /\ ret.out.locked =
            [r \in 1..rows |-> [c \in 1..cols |->
               IF <<r - 1, c - 1>> \in at THEN 1 ELSE g[r][c]]]
       /\ bitmap = g

\* The piece fell at least one row and came to rest on a filled cell.
C16_Witness ==
  /\ Locked
  /\ block.translation.i > LockStart.translation.i
  /\ \E k \in 1..Len(block.offsets) :
       LET sq == squares(block)[k] IN
       /\ sq.i + 1 < rows
       /\ ret.pre.bitmap[sq.i + 2][sq.j + 1] = 1

\* C17: the grid a lock transition returns is new_bitmap without its full
\* rows: as many empty rows on top as rows were full, and every other row,
\* in order, lower by the number of full rows under it.
C17_RowsRemoved ==
  (ret.op \in {"place", "do_commands"} /\ ret.out.kind = "Board") =>
    LET g == ret.out.locked
        h == ret.out.new.bitmap
        full == {r \in 1..Len(g) : \A c \in 1..Len(g[r]) : g[r][c] # 0}
        under(r) == Cardinality({x \in full : x > r})
    IN /\ Len(h) = Len(g)
       /\ \A r \in 1..Cardinality(full) : h[r] = [c \in 1..cols |-> 0]
       /\ \A r \in (1..Len(g)) \ full : h[r + under(r)] = g[r]

\* A full row was removed from under a row with a filled cell.
C17_Witness ==
  /\ ret.op \in {"place", "do_commands"}
  /\ ret.out.kind = "Board"
  /\ \E r \in 1..rows : \E s \in 1..(r - 1) :
       /\ \A c \in 1..cols : ret.out.locked[r][c] = 1
       /\ \E c \in 1..cols : ret.out.locked[s][c] = 1
       /\ \E c \in 1..cols : ret.out.locked[s][c] = 0

\* C15: every command sequence in moves, applied to the piece from its reset
\* position, gives a legal position on the board; a rotation and column
\* whose position is illegal has no sequence in moves.
C15_RecordedAreLegal ==
  \A k \in 1..Len(moves) :
    Legal(bitmap, Moved(ret.pre.block, moves[k], Len(moves[k])))

\* The empty cells of a grid, and the 4-connected component of the cells S.
EmptyCells(bm) ==
  {x \in (0..(Len(bm) - 1)) \X (0..(Len(bm[1]) - 1)) : bm[x[1] + 1][x[2] + 1] = 0}

Adjacent(x, y) ==
  \/ x[1] = y[1] /\ (x[2] - y[2]) \in {-1, 1}
  \/ x[2] = y[2] /\ (x[1] - y[1]) \in {-1, 1}

RECURSIVE Grow(_, _)
Grow(bm, S) ==
  LET T == S \cup {y \in EmptyCells(bm) : \E x \in S : Adjacent(x, y)}
  IN IF T = S THEN S ELSE Grow(bm, T)

Components(bm) == {Grow(bm, {x}) : x \in EmptyCells(bm)}

\* C19: the flood fill ends without error on every grid, square or not, and
\* the cells it counts for the entries of spaces are the 4-connected
\* components of the empty cells, each component once and each of its cells
\* once.
C19_FloodFillPartitions ==
  ret.op = "flood_fill" =>
    LET found == ret.val.components
        cellsOf(k) == {found[k][n] : n \in 1..Len(found[k])}
    IN /\ ret.val.kind = "ok"
       /\ \A k \in 1..Len(found) : Cardinality(cellsOf(k)) = Len(found[k])
       /\ {cellsOf(k) : k \in 1..Len(found)} = Components(bitmap)
       /\ Len(found) = Cardinality(Components(bitmap))

\* C20: the column scan ends without reading a row outside the bitmap, and
\* the height of a column is the index of its first occupied row from the
\* top, or the number of rows when the column has none.
C20_ColumnHeights ==
  ret.op = "column_heights" =>
    /\ ret.val.kind = "ok"
    /\ \A c \in 1..Len(bitmap[1]) :
         LET filled == {r \in 1..Len(bitmap) : bitmap[r][c] # 0}
         IN ret.val.heights[c] =
              IF filled = {} THEN Len(bitmap)
              ELSE (CHOOSE r \in filled : \A x \in filled : r <= x) - 1

\* C18: the enumeration search makes at depth 0 comes to its end with a
\* value: the slide, the sweep and the drop of every recorded placement
\* finish and the list of placements is returned to search.
C18_EnumerationReturns == <>(pc = "returned")

====
